---------------------------- MODULE Spec2Model ----------------------------
(***************************************************************************)
(* Model of the AEM scoring engine (src/aem_calculator.py).                *)
(*                                                                         *)
(* Python floats are modelled as fixed-point integers: the integer n       *)
(* stands for the real n / SCALE.  Every arithmetic step of the source is  *)
(* carried out in that representation with truncating division, so sums    *)
(* and quotients carry a rounding error of at most one unit per division,  *)
(* as the floating-point code carries one of a few ulps.                   *)
(*                                                                         *)
(* Python dicts are modelled as sequences of <<key, value>> pairs, because *)
(* the source relies on insertion order (zip over .values()).              *)
(***************************************************************************)
EXTENDS Integers, Sequences, FiniteSets, TLC

\* Resolution of the fixed-point representation of a Python float.
SCALE == 1000

\* ------------------------------------------------------------------------
\* Arithmetic helpers (Python float operators on fixed-point numbers)
\* ------------------------------------------------------------------------

Abs(x) == IF x < 0 THEN -x ELSE x

\* a / b on integers of any sign (b # 0), truncating toward zero.
TDiv(a, b) ==
    IF b > 0
    THEN IF a >= 0 THEN a \div b ELSE -((-a) \div b)
    ELSE IF a >= 0 THEN -(a \div (-b)) ELSE (-a) \div (-b)

\* Product and quotient of two fixed-point numbers.
FMul(a, b) == TDiv(a * b, SCALE)
FDiv(a, b) == TDiv(a * SCALE, b)

\* Fixed-point value of the decimal literal n/1000 of the source.
Milli(n) == (n * SCALE) \div 1000

RECURSIVE ISqrtFrom(_, _)
\* Newton iteration for the integer square root, from a guess r above it.
ISqrtFrom(n, r) ==
    IF r <= n \div r THEN r ELSE ISqrtFrom(n, (r + n \div r) \div 2)

\* Square root of a fixed-point number (the np.sqrt inside np.std).
FSqrt(x) == IF x = 0 THEN 0 ELSE ISqrtFrom(x * SCALE, x * SCALE)

RECURSIVE SeqSum(_)
SeqSum(s) == IF s = <<>> THEN 0 ELSE Head(s) + SeqSum(Tail(s))

RECURSIVE SeqMaxFrom(_, _)
SeqMaxFrom(s, m) ==
    IF s = <<>> THEN m
    ELSE SeqMaxFrom(Tail(s), IF Head(s) > m THEN Head(s) ELSE m)

\* max() of a non-empty sequence.
SeqMax(s) == SeqMaxFrom(Tail(s), Head(s))

\* ------------------------------------------------------------------------
\* math.exp, math.log10, scipy.stats.entropy
\* ------------------------------------------------------------------------

RECURSIVE ExpSeries(_, _)
\* Taylor series of e^f for a fixed-point f in [0, 1), in Horner form
\* from its k-th term on: 1 + (f/k) (1 + (f/(k+1)) (1 + ...)).
ExpSeries(f, k) ==
    IF k > 7 THEN SCALE ELSE SCALE + FMul(f, ExpSeries(f, k + 1)) \div k

RECURSIVE ExpNegInt(_)
\* e^(-n) for a natural n.
ExpNegInt(n) == IF n = 0 THEN SCALE ELSE FMul(ExpNegInt(n - 1), Milli(368))

\* e^(-y) for a fixed-point y >= 0; below the resolution it is 0.
ExpNeg(y) ==
    IF y >= 8 * SCALE THEN 0
    ELSE FMul(ExpNegInt(y \div SCALE), FDiv(SCALE, ExpSeries(y % SCALE, 1)))

\* math.exp raises OverflowError above ln(DBL_MAX) = 709.78.
ExpOverflows(y) == y > Milli(709782)

RECURSIVE Log10Frac(_, _)
\* Fractional digits of log10(v), v in [1, 10): square v, compare with 10,
\* one binary digit (worth `bit`) at a time.
Log10Frac(v, bit) ==
    IF bit = 0 THEN 0
    ELSE IF v * v >= 10 * SCALE * SCALE
         THEN bit + Log10Frac((v * v) \div (10 * SCALE), bit \div 2)
         ELSE Log10Frac((v * v) \div SCALE, bit \div 2)

RECURSIVE Log10Pos(_)
\* math.log10 of a fixed-point v > 0.
Log10Pos(v) ==
    IF v >= 10 * SCALE THEN SCALE + Log10Pos(v \div 10)
    ELSE IF v < SCALE THEN Log10Pos(v * 10) - SCALE
    ELSE Log10Frac(v, SCALE \div 2)

\* scipy.special.entr: -p ln p (ln p = log10 p * ln 10), and 0 at p = 0.
EntrValue(p) ==
    IF p <= 0 THEN 0 ELSE -FMul(p, FMul(Log10Pos(p), Milli(2303)))

\* EntrValue on the probabilities, computed once.
EntrMemo == [p \in 0..SCALE |-> EntrValue(p)]

Entr(p) == IF p >= 0 /\ p <= SCALE THEN EntrMemo[p] ELSE EntrValue(p)

\* scipy.stats.entropy of a two-point distribution: the distribution is
\* first divided by its sum, then the entr terms are added.
entropy(dist) ==
    Entr(FDiv(dist[1], dist[1] + dist[2])) + Entr(FDiv(dist[2], dist[1] + dist[2]))

\* ------------------------------------------------------------------------
\* Python values: dicts, results and exceptions
\* ------------------------------------------------------------------------

\* A dict is a sequence of <<key, value>> pairs in insertion order.
Keys(d) == [i \in 1..Len(d) |-> d[i][1]]
Values(d) == [i \in 1..Len(d) |-> d[i][2]]
HasKey(d, k) == \E i \in 1..Len(d) : d[i][1] = k
Get(d, k) == d[CHOOSE i \in 1..Len(d) : d[i][1] = k][2]
GetOr(d, k, default) == IF HasKey(d, k) THEN Get(d, k) ELSE default

\* zip(a, b): pairs up to the shorter of the two sequences.
Zip(a, b) ==
    [i \in 1..(IF Len(a) <= Len(b) THEN Len(a) ELSE Len(b)) |-> <<a[i], b[i]>>]

\* The outcome of a call: a returned value, or a raised exception.
Ok(v) == [exc |-> "none", arg |-> "", v |-> v]
Raise(e, a) == [exc |-> e, arg |-> a, v |-> 0]
Raised(r) == r.exc # "none"

\* financials[k]: KeyError(k) when the record has no field k.
Has(financials, k) == k \in DOMAIN financials

\* The six metric names, in the order calculate_aem builds raw_metrics.
MetricNames ==
    << "program_expense_ratio", "fundraising_efficiency",
       "revenue_sustainability", "net_surplus_margin",
       "executive_pay_reasonableness", "transparency" >>

\* ------------------------------------------------------------------------
\* AEMCalculator.__init__
\* ------------------------------------------------------------------------

DefaultBaseWeights ==
    << <<"program_expense_ratio", Milli(300)>>,
       <<"fundraising_efficiency", Milli(200)>>,
       <<"revenue_sustainability", Milli(150)>>,
       <<"net_surplus_margin", Milli(150)>>,
       <<"executive_pay_reasonableness", Milli(100)>>,
       <<"transparency", Milli(100)>> >>

DefaultPolicyWeights ==
    << <<"conflict_of_interest_policy", Milli(300)>>,
       <<"whistleblower_policy", Milli(300)>>,
       <<"document_retention_policy", Milli(200)>>,
       <<"compensation_review_process", Milli(200)>> >>

\* The attributes a freshly constructed calculator holds.
NewCalculator ==
    [ base_weights   |-> DefaultBaseWeights,
      sigmoid_shift  |-> Milli(500),
      sigmoid_scale  |-> 10 * SCALE,
      policy_weights |-> DefaultPolicyWeights ]

\* ------------------------------------------------------------------------
\* _sigmoid_normalization and the raw metric extractors
\* ------------------------------------------------------------------------

\* e / (e + 1)
Odds(e) == FDiv(e, e + SCALE)

\* 1 / (1 + math.exp(-3 * x)) where math.exp does not overflow.  For
\* x < 0 the quotient is taken as e^(3x) / (e^(3x) + 1), the same real
\* number, so that the exponential stays within 32-bit integers.
Logistic(x) ==
    IF x >= 0 THEN FDiv(SCALE, SCALE + ExpNeg(3 * x)) ELSE Odds(ExpNeg(-3 * x))

\* Logistic on the range of the clipped z-scores, computed once.
LogisticMemo == [x \in (-3 * SCALE)..(3 * SCALE) |-> Logistic(x)]

sigmoid_normalization(x) ==
    IF ExpOverflows(-3 * x) THEN Raise("OverflowError", "math range error")
    ELSE IF x >= -3 * SCALE /\ x <= 3 * SCALE THEN Ok(LogisticMemo[x])
    ELSE Ok(Logistic(x))

RECURSIVE ProgramExpensesSum(_)
\* sum(program.get('expenses', 0) for program in ....values())
ProgramExpensesSum(programs) ==
    IF programs = <<>> THEN 0
    ELSE GetOr(Head(programs)[2], "expenses", 0) + ProgramExpensesSum(Tail(programs))

calculate_program_expense_ratio(financials) ==
    IF Has(financials, "program_expense_ratio")
    THEN sigmoid_normalization(financials.program_expense_ratio - Milli(600))
    ELSE IF ~Has(financials, "largest_program_expenses") THEN Ok(0)
    ELSE IF ~Has(financials, "total_expenses") THEN Raise("KeyError", "total_expenses")
    ELSE IF financials.total_expenses = 0 THEN Ok(0)
    ELSE sigmoid_normalization(
             FDiv(ProgramExpensesSum(financials.largest_program_expenses),
                  financials.total_expenses) - Milli(600))

\* math.log10(efficiency) - 0.8 through the sigmoid; log10 raises
\* ValueError for an argument that is not positive.
LogEfficiency(efficiency) ==
    IF efficiency <= 0 THEN Raise("ValueError", "math domain error")
    ELSE sigmoid_normalization(Log10Pos(efficiency) - Milli(800))

calculate_fundraising_efficiency(financials) ==
    IF Has(financials, "fundraising_efficiency")
    THEN LogEfficiency(financials.fundraising_efficiency)
    ELSE IF ~Has(financials, "fundraising_expenses")
    THEN Raise("KeyError", "fundraising_expenses")
    ELSE IF financials.fundraising_expenses = 0 THEN Ok(0)
    ELSE IF ~Has(financials, "contributions_and_grants")
    THEN Raise("KeyError", "contributions_and_grants")
    ELSE LogEfficiency(FDiv(financials.contributions_and_grants,
                            financials.fundraising_expenses))

calculate_revenue_sustainability(financials) ==
    IF ~Has(financials, "total_revenue") THEN Raise("KeyError", "total_revenue")
    ELSE IF financials.total_revenue = 0 THEN Ok(0)
    ELSE IF ~Has(financials, "program_service_revenue")
    THEN Raise("KeyError", "program_service_revenue")
    ELSE sigmoid_normalization(
             FDiv(financials.program_service_revenue, financials.total_revenue)
             - Milli(500))

\* The margin without the zero-revenue guard: the division is reached
\* with a zero divisor.
UnguardedNetSurplusMargin(financials) ==
    IF ~Has(financials, "total_revenue") THEN Raise("KeyError", "total_revenue")
    ELSE IF ~Has(financials, "total_expenses")
    THEN Raise("KeyError", "total_expenses")
    ELSE IF financials.total_revenue = 0
    THEN Raise("ZeroDivisionError", "division by zero")
    ELSE sigmoid_normalization(
             FDiv(financials.total_revenue - financials.total_expenses,
                  financials.total_revenue) - Milli(50))

calculate_net_surplus_margin(financials) ==
    IF ~Has(financials, "total_revenue") THEN Raise("KeyError", "total_revenue")
    ELSE IF financials.total_revenue = 0 THEN Ok(0)
    ELSE IF ~Has(financials, "total_expenses")
    THEN Raise("KeyError", "total_expenses")
    ELSE sigmoid_normalization(
             FDiv(financials.total_revenue - financials.total_expenses,
                  financials.total_revenue) - Milli(50))

\* financials.get('top_individual_salaries') is falsy when the field is
\* absent or the mapping is empty.
calculate_executive_pay_reasonableness(financials) ==
    IF ~Has(financials, "top_individual_salaries")
       \/ financials.top_individual_salaries = <<>>
    THEN Ok(Milli(500))
    ELSE IF ~Has(financials, "total_expenses")
    THEN Raise("KeyError", "total_expenses")
    ELSE IF financials.total_expenses = 0 THEN Ok(Milli(500))
    ELSE sigmoid_normalization(
             Milli(15) - FDiv(SeqMax(Values(financials.top_individual_salaries)),
                              financials.total_expenses))

RECURSIVE PolicyScore(_)
\* sum(weight * (1.0 if policy else 0.0) for policy, weight in zipped)
PolicyScore(zipped) ==
    IF zipped = <<>> THEN 0
    ELSE FMul(Head(zipped)[2], IF Head(zipped)[1] THEN SCALE ELSE 0)
         + PolicyScore(Tail(zipped))

fuzzy_policy_evaluation(self, policies) ==
    IF policies = <<>> THEN Ok(0)
    ELSE sigmoid_normalization(
             PolicyScore(Zip(Values(policies), Values(self.policy_weights))))

\* ------------------------------------------------------------------------
\* _calculate_entropy_weights
\* ------------------------------------------------------------------------

\* The source's 1e-10, taken as the smallest positive quantity of the
\* fixed-point representation.
epsilon == 1

\* adjusted_metrics = {k: v + epsilon ...}
AdjustedMetrics(metrics) ==
    [i \in 1..Len(metrics) |-> <<metrics[i][1], metrics[i][2] + epsilon>>]

\* probabilities = {k: v/total ...}
Probabilities(adjusted_metrics, total) ==
    [i \in 1..Len(adjusted_metrics) |->
        <<adjusted_metrics[i][1], FDiv(adjusted_metrics[i][2], total)>>]

\* entropies[metric] = entropy([prob, 1-prob])
Entropies(probabilities) ==
    [i \in 1..Len(probabilities) |->
        <<probabilities[i][1],
          entropy(<<probabilities[i][2], SCALE - probabilities[i][2]>>)>>]

\* The entropies taken as they are, without the inversion against
\* max_entropy.
EntropiesNotInverted(entropies, max_entropy) ==
    [i \in 1..Len(entropies) |-> <<entropies[i][1], entropies[i][2] + epsilon>>]

\* inverse_entropies = {metric: (max_entropy - e + epsilon) ...}
InverseEntropies(entropies, max_entropy) ==
    [i \in 1..Len(entropies) |->
        <<entropies[i][1], max_entropy - entropies[i][2] + epsilon>>]

\* The `if total_inverse == 0` fallback and the weights comprehension.
WeightsOfInverse(self, inverse_entropies, total_inverse) ==
    IF total_inverse = 0 THEN self.base_weights
    ELSE [i \in 1..Len(inverse_entropies) |->
            <<inverse_entropies[i][1],
              FDiv(inverse_entropies[i][2] + epsilon,
                   total_inverse + Len(inverse_entropies) * epsilon)>>]

\* total_inverse = sum(inverse_entropies.values()), and what follows it.
WeightsOfInverseEntropies(self, inverse_entropies) ==
    WeightsOfInverse(self, inverse_entropies, SeqSum(Values(inverse_entropies)))

\* max_entropy = max(entropies.values()), and what follows it.
WeightsOfEntropies(self, entropies) ==
    WeightsOfInverseEntropies(self,
        InverseEntropies(entropies, SeqMax(Values(entropies))))

\* total = sum(adjusted_metrics.values()), and what follows it.
WeightsOfAdjusted(self, adjusted_metrics) ==
    WeightsOfEntropies(self,
        Entropies(Probabilities(adjusted_metrics,
                                SeqSum(Values(adjusted_metrics)))))

calculate_entropy_weights(self, metrics) ==
    WeightsOfAdjusted(self, AdjustedMetrics(metrics))

\* ------------------------------------------------------------------------
\* _multi_dimensional_normalization
\* ------------------------------------------------------------------------

\* The equal-values case handing the metrics back as they came.
Unnormalized(metrics) == metrics

\* {metric: 0.5 for metric in metrics.keys()}
Neutral(metrics) == [i \in 1..Len(metrics) |-> <<metrics[i][1], Milli(500)>>]

\* np.clip(z, lo, hi)
Clip(z, lo, hi) == IF z < lo THEN lo ELSE IF z > hi THEN hi ELSE z

\* np.mean(values)
Mean(values) == TDiv(SeqSum(values), Len(values))

\* np.std(values): the root of the mean squared deviation from the mean.
Std(values, mean) ==
    FSqrt(TDiv(SeqSum([i \in 1..Len(values) |->
                          FMul(values[i] - mean, values[i] - mean)]),
               Len(values)))

\* The normalizer with the conversion back to sigmoid space left out: it
\* returns the clipped z-scores themselves.
NormalizeWithoutSigmoid(metrics, mean, std) ==
    IF std = 0 THEN Neutral(metrics)
    ELSE [i \in 1..Len(metrics) |->
            <<metrics[i][1],
              Clip(FDiv(metrics[i][2] - mean, std), -3 * SCALE, 3 * SCALE)>>]

\* The `if std == 0` guard, and the clipped z-scores through the sigmoid.
NormalizeWith(metrics, mean, std) ==
    IF std = 0 THEN Neutral(metrics)
    ELSE [i \in 1..Len(metrics) |->
            <<metrics[i][1],
              sigmoid_normalization(
                  Clip(FDiv(metrics[i][2] - mean, std), -3 * SCALE, 3 * SCALE)).v>>]

\* std = np.std(values), and what follows it.
NormalizeAround(metrics, mean) ==
    NormalizeWith(metrics, mean, Std(Values(metrics), mean))

multi_dimensional_normalization(metrics) ==
    IF \A i \in 1..Len(metrics) : metrics[i][2] = metrics[1][2]
    THEN Neutral(metrics)
    ELSE NormalizeAround(metrics, Mean(Values(metrics)))

\* ------------------------------------------------------------------------
\* calculate_aem
\* ------------------------------------------------------------------------

\* The six extractor calls of the raw_metrics literal, in evaluation order.
RawResults(self, financials) ==
    << calculate_program_expense_ratio(financials),
       calculate_fundraising_efficiency(financials),
       calculate_revenue_sustainability(financials),
       calculate_net_surplus_margin(financials),
       calculate_executive_pay_reasonableness(financials),
       fuzzy_policy_evaluation(self,
           IF Has(financials, "policies") THEN financials.policies ELSE <<>>) >>

RECURSIVE FirstRaised(_, _)
\* The index of the first result from the i-th on that is an exception;
\* 0 when there is none.
FirstRaised(results, i) ==
    IF i > Len(results) THEN 0
    ELSE IF Raised(results[i]) THEN i
    ELSE FirstRaised(results, i + 1)

\* The dict the literal builds, or the exception that ends its evaluation
\* (`at` names the metric whose extractor raised it).
RawMetricsOf(results, first) ==
    IF first # 0 THEN [ret |-> results[first], at |-> MetricNames[first]]
    ELSE [ret |-> Ok([i \in 1..Len(results) |-> <<MetricNames[i], results[i].v>>]),
          at |-> ""]

\* The raw_metrics dict literal, from the outcomes of its six calls.
RawMetricsFrom(results) == RawMetricsOf(results, FirstRaised(results, 1))

\* The raw_metrics dict literal.
RawMetrics(self, financials) == RawMetricsFrom(RawResults(self, financials))

\* The frame of a calculate_aem call that raised before its locals were bound.
Failed(exception, where) ==
    [ ret |-> exception, at |-> where, raw_metrics |-> <<>>,
      entropy_weights |-> <<>>, normalized_metrics |-> <<>>,
      final_weights |-> <<>> ]

\* final_weights before renormalization: one entry per key of
\* self.base_weights, in that dict's order.
BlendWeights(base_weights, entropy_weights) ==
    [i \in 1..Len(base_weights) |->
        <<base_weights[i][1],
          TDiv(base_weights[i][2] + Get(entropy_weights, base_weights[i][1]), 2)>>]

\* The blended weights with the division by total_weight left out.
UnnormalizedWeights(final_weights, total_weight) == final_weights

\* final_weights after dividing each weight by total_weight.
NormalizeWeights(final_weights, total_weight) ==
    [i \in 1..Len(final_weights) |->
        <<final_weights[i][1], FDiv(final_weights[i][2], total_weight)>>]

RECURSIVE WeightedSum(_)
\* sum(weight * score for weight, score in zipped)
WeightedSum(zipped) ==
    IF zipped = <<>> THEN 0
    ELSE FMul(Head(zipped)[1], Head(zipped)[2]) + WeightedSum(Tail(zipped))

\* aem_score with the two dicts walked in opposite orders.
AemScoreMisaligned(final_weights, normalized_metrics) ==
    WeightedSum(Zip(Values(final_weights),
                    [i \in 1..Len(normalized_metrics) |->
                        normalized_metrics[Len(normalized_metrics) + 1 - i][2]]))

\* aem_score: the weights and the scores are paired by position.
AemScore(final_weights, normalized_metrics) ==
    WeightedSum(Zip(Values(final_weights), Values(normalized_metrics)))

\* The return statement, with the locals of the call.
AemReturn(raw_metrics, entropy_weights, normalized_metrics, final_weights) ==
    [ ret |-> Ok([ score |-> AemScore(final_weights, normalized_metrics),
                   components |-> normalized_metrics ]),
      at |-> "",
      raw_metrics |-> raw_metrics,
      entropy_weights |-> entropy_weights,
      normalized_metrics |-> normalized_metrics,
      final_weights |-> final_weights ]

\* The renormalization of final_weights, and what follows it.
AemFromBlend(raw_metrics, entropy_weights, normalized_metrics, blended, total_weight) ==
    IF total_weight = 0
    THEN Failed(Raise("ZeroDivisionError", "total_weight"), "final_weights")
    ELSE AemReturn(raw_metrics, entropy_weights, normalized_metrics,
                   NormalizeWeights(blended, total_weight))

\* total_weight = sum(final_weights.values()), and what follows it.
AemFromFinal(raw_metrics, entropy_weights, normalized_metrics, blended) ==
    AemFromBlend(raw_metrics, entropy_weights, normalized_metrics,
                 blended, SeqSum(Values(blended)))

\* calculate_aem from the final_weights comprehension on.
AemFromWeights(self, raw_metrics, entropy_weights, normalized_metrics) ==
    IF \E i \in 1..Len(self.base_weights) :
           ~HasKey(entropy_weights, self.base_weights[i][1])
    THEN Failed(Raise("KeyError", "entropy_weights"), "final_weights")
    ELSE AemFromFinal(raw_metrics, entropy_weights, normalized_metrics,
                      BlendWeights(self.base_weights, entropy_weights))

\* calculate_aem once raw_metrics is evaluated.
AemFromRaw(self, raw) ==
    IF Raised(raw.ret) THEN Failed(raw.ret, raw.at)
    ELSE AemFromWeights(self, raw.ret.v,
                        calculate_entropy_weights(self, raw.ret.v),
                        multi_dimensional_normalization(raw.ret.v))

\* One call of calculate_aem: its outcome (ret: the returned
\* (aem_score, normalized_metrics), or the exception, raised at `at`)
\* together with the locals it bound.
calculate_aem(self, financials) == AemFromRaw(self, RawMetrics(self, financials))

\* ------------------------------------------------------------------------
\* Analysis utilities
\* ------------------------------------------------------------------------

\* d[k] = v on a dict that holds k: the key keeps its position.
SetKey(d, k, v) == [i \in 1..Len(d) |-> IF d[i][1] = k THEN <<k, v>> ELSE d[i]]

\* {..., k: v}: a key already in the dict keeps its position and takes
\* the new value, a new key is appended.
Put(d, k, v) == IF HasKey(d, k) THEN SetKey(d, k, v) ELSE Append(d, <<k, v>>)

\* The perturbation without the .copy(): the calculator's own dict is the
\* one that is scaled.
PerturbInPlace(base_weights, metric, variation) ==
    [ mine     |-> SetKey(base_weights, metric,
                          FMul(Get(base_weights, metric), SCALE + variation)),
      modified |-> SetKey(base_weights, metric,
                          FMul(Get(base_weights, metric), SCALE + variation)) ]

\* modified_weights = self.base_weights.copy();
\* modified_weights[metric] *= (1 + variation)
\* `mine` is self.base_weights after the two statements, `modified` the
\* dict handed to the modified calculator.
PerturbStep(base_weights, metric, variation) ==
    [ mine     |-> base_weights,
      modified |-> SetKey(base_weights, metric,
                          FMul(Get(base_weights, metric), SCALE + variation)) ]

\* The difference of the two scores without the abs().
SignedDelta(new_score, base_score) == new_score - base_score

\* results[metric] = abs(new_score - base_score)
SensitivityDelta(new_score, base_score) == Abs(new_score - base_score)

\* modified_calc = AEMCalculator(); modified_calc.base_weights = modified_weights
ModifiedCalculator(modified_weights) ==
    [NewCalculator EXCEPT !.base_weights = modified_weights]

\* The loop's state after an iteration: st before it, step the weights it
\* made, run the modified calculator's calculate_aem call.
AfterIteration(st, metric, step, run, base_score) ==
    [ base_weights |-> step.mine,
      results |-> IF Raised(run.ret) THEN st.results
                  ELSE Put(st.results, metric,
                           SensitivityDelta(run.ret.v.score, base_score)),
      trials |-> Append(st.trials,
                        [metric |-> metric, weights |-> step.modified, run |-> run]),
      exception |-> run.ret ]

\* One iteration of the loop, for the weights `step` it made.
Iteration(st, metric, step, financials, base_score) ==
    AfterIteration(st, metric, step,
                   calculate_aem(ModifiedCalculator(step.modified), financials),
                   base_score)

RECURSIVE SensitivityLoop(_, _, _, _, _)
\* The loop `for metric in self.base_weights`, from its i-th iteration on.
\* st: the loop's state (self.base_weights, results, per iteration the
\* metric, the weights given to the modified calculator and the frame of
\* its calculate_aem call, and the exception once one is raised).
SensitivityLoop(st, financials, variation, base_score, i) ==
    IF i > Len(st.base_weights) \/ Raised(st.exception) THEN st
    ELSE SensitivityLoop(
             Iteration(st, st.base_weights[i][1],
                       PerturbStep(st.base_weights, st.base_weights[i][1], variation),
                       financials, base_score),
             financials, variation, base_score, i + 1)

\* What sensitivity_analysis returns or raises when its loop ends in `end`.
SensitivityReturn(base, end) ==
    [ ret |-> IF Raised(end.exception) THEN end.exception ELSE Ok(end.results),
      base_weights |-> end.base_weights,
      trials |-> end.trials,
      frame |-> base ]

\* sensitivity_analysis after its first statement, the base run.
SensitivityFromBase(self, financials, variation, base) ==
    IF Raised(base.ret)
    THEN [ ret |-> base.ret, base_weights |-> self.base_weights,
           trials |-> <<>>, frame |-> base ]
    ELSE SensitivityReturn(base,
             SensitivityLoop(
                 [ base_weights |-> self.base_weights, results |-> <<>>,
                   trials |-> <<>>, exception |-> Ok(0) ],
                 financials, variation, base.ret.v.score, 1))

\* One call of sensitivity_analysis: the returned results (or the
\* exception), self.base_weights when it ends, the weights it tried and
\* the base run's frame.
sensitivity_analysis(self, financials, variation) ==
    SensitivityFromBase(self, financials, variation, calculate_aem(self, financials))

\* contributions[metric] = self.base_weights[metric] * comp_score
Contributions(self, components) ==
    [i \in 1..Len(components) |->
        <<components[i][1],
          FMul(Get(self.base_weights, components[i][1]), components[i][2])>>]

ComponentsReturn(self, run) ==
    [ frame |-> run,
      ret |-> IF Raised(run.ret) THEN run.ret
              ELSE Ok([ total_score |-> run.ret.v.score,
                        component_scores |-> run.ret.v.components,
                        contributions |->
                            Contributions(self, run.ret.v.components) ]) ]

analyze_components(self, financials) ==
    ComponentsReturn(self, calculate_aem(self, financials))

NormalizationReturn(raw, run) ==
    IF Raised(raw.ret) THEN [frame |-> Failed(raw.ret, raw.at), ret |-> raw.ret]
    ELSE [ frame |-> run,
           ret |-> IF Raised(run.ret) THEN run.ret
                   ELSE Ok([ raw_metrics |-> raw.ret.v,
                             normalized_metrics |-> run.ret.v.components,
                             final_score |-> run.ret.v.score ]) ]

\* analyze_normalization evaluates the six extractors itself, then calls
\* calculate_aem, which evaluates them again.
analyze_normalization(self, financials) ==
    NormalizationReturn(RawMetrics(self, financials),
                        calculate_aem(self, financials))

\* The dict literal of the return statement: two entries written in turn,
\* each keyed by its record's organization_name.
ComparisonDict(name1, entry1, name2, entry2) ==
    Put(Put(<<>>, name1, entry1), name2, entry2)

ComparisonReturn(school1_data, school2_data, run1, run2) ==
    [ frame |-> run1,
      ret |->
        IF Raised(run1.ret) THEN run1.ret
        ELSE IF Raised(run2.ret) THEN run2.ret
        ELSE IF ~Has(school1_data, "organization_name")
        THEN Raise("KeyError", "organization_name")
        ELSE IF ~Has(school2_data, "organization_name")
        THEN Raise("KeyError", "organization_name")
        ELSE Ok(ComparisonDict(
                 school1_data.organization_name,
                 [ score |-> run1.ret.v.score,
                   components |-> run1.ret.v.components ],
                 school2_data.organization_name,
                 [ score |-> run2.ret.v.score,
                   components |-> run2.ret.v.components ])) ]

cross_validate_schools(self, school1_data, school2_data) ==
    ComparisonReturn(school1_data, school2_data,
                     calculate_aem(self, school1_data),
                     calculate_aem(self, school2_data))

\* ------------------------------------------------------------------------
\* Input records (the FinancialRecord of the caller)
\* ------------------------------------------------------------------------

\* Bounds of the model.
MaxAmount == 4        \* largest monetary amount of a record
MaxPrograms == 2      \* entries of largest_program_expenses
NumCalculators == 2   \* calculators the caller constructs

NumericFields ==
    { "total_revenue", "total_expenses", "contributions_and_grants",
      "program_service_revenue", "fundraising_expenses" }

\* The amounts of a filing with all its figures positive.
TypicalAmounts ==
    [ total_revenue            |-> MaxAmount,
      total_expenses           |-> MaxAmount - 1,
      contributions_and_grants |-> 2,
      program_service_revenue  |-> 3,
      fundraising_expenses     |-> 1 ]

\* Program entries; the last one carries no 'expenses' key.
Programs ==
    [i \in 1..MaxPrograms |->
        IF i < MaxPrograms
        THEN <<"instructional", << <<"expenses", 2>>, <<"revenue", 3>> >> >>
        ELSE <<"summer", << <<"revenue", 1>> >> >>]

\* The optional parts of a record, by the kind of filing.
OptionalParts(profile) ==
    CASE profile = "full" ->
           [ largest_program_expenses |-> Programs,
             top_individual_salaries  |-> << <<"head", 1>>, <<"cfo", 2>> >>,
             policies |-> << <<"conflict_of_interest_policy", TRUE>>,
                             <<"whistleblower_policy", TRUE>>,
                             <<"document_retention_policy", FALSE>>,
                             <<"compensation_review_process", TRUE>> >> ]
      [] profile = "sparse" ->
           [ top_individual_salaries |-> <<>> ]
      [] profile = "override" ->
           [ program_expense_ratio   |-> Milli(700),
             fundraising_efficiency  |-> 10 * SCALE,
             top_individual_salaries |-> <<>>,
             policies |-> << <<"compensation_review_process", TRUE>>,
                             <<"conflict_of_interest_policy", FALSE>> >> ]
      [] profile = "override0" ->
           [ program_expense_ratio   |-> Milli(600),
             fundraising_efficiency  |-> 0,
             policies |-> << <<"whistleblower_policy", FALSE>> >> ]

Profiles == {"full", "sparse", "override", "override0"}

\* Which amounts a filing reports as zero.
ZeroSets ==
    { {}, {"fundraising_expenses"}, {"contributions_and_grants"},
      {"total_revenue", "total_expenses"}, NumericFields }

\* Merge of two records with disjoint fields.
Merge(a, b) ==
    [k \in DOMAIN a \cup DOMAIN b |-> IF k \in DOMAIN a THEN a[k] ELSE b[k]]

\* A record named `name`: the typical amounts with those of `zeros` at 0
\* and those of `absent` missing, and the optional parts of `profile`.
MakeRecord(name, profile, zeros, absent) ==
    Merge(Merge([organization_name |-> name],
                [k \in NumericFields \ absent |->
                    IF k \in zeros THEN 0 ELSE TypicalAmounts[k]]),
          OptionalParts(profile))

\* The records a caller may hold: every profile with every zero set, and
\* records with one required amount missing.
Records ==
    { MakeRecord("Episcopal", p, z, {}) : p \in Profiles, z \in ZeroSets }
    \cup
    { MakeRecord("Episcopal", p, z, {f}) :
        p \in {"full", "override"}, z \in {{}, NumericFields}, f \in NumericFields }

\* The records a caller compares one with: another school, and an
\* earlier filing of the same school.
OtherRecords ==
    { MakeRecord("Haverford", "full", {"fundraising_expenses"}, {}),
      MakeRecord("Episcopal", "sparse", {}, {}) }

\* The weight variations a caller asks sensitivity_analysis for.
Variations == {0, Milli(200)}

Calculators == 1..NumCalculators

\* ------------------------------------------------------------------------
\* The caller: calculators, records, and the calls made on them
\* ------------------------------------------------------------------------

VARIABLES
    calcs,     \* calcs[c]: the attributes of calculator c
    rec,       \* the record under analysis, as the caller holds it
    seen,      \* the first direct calculate_aem call on rec: who made it, its outcome
    op,        \* the method called last ("" before the first call)
    who,       \* calculate_aem: the calculator it was called on (0 otherwise)
    args,      \* its arguments besides rec (variation, the other record, or the metrics)
    ret,       \* what it returned or raised
    frame,     \* the locals of the calculate_aem run it made on rec
    trials     \* sensitivity_analysis: per metric, the modified calculator's weights and run

vars == <<calcs, rec, seen, op, who, args, ret, frame, trials>>

NoFrame == Failed(Raise("unset", ""), "")
NoArgs == [variation |-> 0, other |-> <<>>, metrics |-> <<>>]

Init ==
    /\ calcs = [c \in Calculators |-> NewCalculator]
    /\ rec \in Records
    /\ seen = [by |-> 0, ret |-> Raise("unset", "")]
    /\ op = ""
    /\ who = 0
    /\ args = NoArgs
    /\ ret = Raise("unset", "")
    /\ frame = NoFrame
    /\ trials = <<>>

\* calculator = AEMCalculator()
Construct(c) ==
    /\ calcs' = [calcs EXCEPT ![c] = NewCalculator]
    /\ op' = "__init__"
    /\ who' = 0
    /\ args' = NoArgs
    /\ ret' = Ok(0)
    /\ frame' = NoFrame
    /\ trials' = <<>>
    /\ UNCHANGED <<rec, seen>>

\* calculator.calculate_aem(rec)
CalculateAem(c) ==
    LET run == calculate_aem(calcs[c], rec)
    IN  /\ op' = "calculate_aem"
        /\ who' = c
        /\ args' = NoArgs
        /\ ret' = run.ret
        /\ frame' = run
        /\ trials' = <<>>
        /\ seen' = IF seen.by = 0 THEN [by |-> c, ret |-> run.ret] ELSE seen
        /\ UNCHANGED <<calcs, rec>>

\* calculator.sensitivity_analysis(rec, v)
SensitivityAnalysis(c, v) ==
    LET call == sensitivity_analysis(calcs[c], rec, v)
    IN  /\ op' = "sensitivity_analysis"
        /\ who' = 0
        /\ args' = [NoArgs EXCEPT !.variation = v]
        /\ ret' = call.ret
        /\ frame' = call.frame
        /\ trials' = call.trials
        /\ calcs' = [calcs EXCEPT ![c].base_weights = call.base_weights]
        /\ UNCHANGED <<rec, seen>>

\* calculator.analyze_components(rec)
AnalyzeComponents(c) ==
    LET call == analyze_components(calcs[c], rec)
    IN  /\ op' = "analyze_components"
        /\ who' = 0
        /\ args' = NoArgs
        /\ ret' = call.ret
        /\ frame' = call.frame
        /\ trials' = <<>>
        /\ UNCHANGED <<calcs, rec, seen>>

\* calculator.analyze_normalization(rec)
AnalyzeNormalization(c) ==
    LET call == analyze_normalization(calcs[c], rec)
    IN  /\ op' = "analyze_normalization"
        /\ who' = 0
        /\ args' = NoArgs
        /\ ret' = call.ret
        /\ frame' = call.frame
        /\ trials' = <<>>
        /\ UNCHANGED <<calcs, rec, seen>>

\* calculator.cross_validate_schools(rec, o)
CrossValidateSchools(c, o) ==
    LET call == cross_validate_schools(calcs[c], rec, o)
    IN  /\ op' = "cross_validate_schools"
        /\ who' = 0
        /\ args' = [NoArgs EXCEPT !.other = o]
        /\ ret' = call.ret
        /\ frame' = call.frame
        /\ trials' = <<>>
        /\ UNCHANGED <<calcs, rec, seen>>

Next ==
    \E c \in Calculators :
        \/ Construct(c)
        \/ CalculateAem(c)
        \/ \E v \in Variations : SensitivityAnalysis(c, v)
        \/ AnalyzeComponents(c)
        \/ AnalyzeNormalization(c)
        \/ \E o \in OtherRecords : CrossValidateSchools(c, o)

Spec == Init /\ [][Next]_vars

\* The normalizer on its own: the six raw metrics are drawn from a grid of
\* [0, 1], where every extractor's value lies, and the normalizer is
\* applied to them.
MaxLevel == 3
Levels == {(l * SCALE) \div MaxLevel : l \in 0..MaxLevel}
MetricVectors ==
    {[i \in 1..Len(MetricNames) |-> <<MetricNames[i], v[i]>>] :
        v \in [1..Len(MetricNames) -> Levels]}

InitNorm ==
    /\ calcs = [c \in Calculators |-> NewCalculator]
    /\ rec = MakeRecord("Episcopal", "full", {}, {})
    /\ seen = [by |-> 0, ret |-> Raise("unset", "")]
    /\ op = ""
    /\ who = 0
    /\ args \in {[NoArgs EXCEPT !.metrics = m] : m \in MetricVectors}
    /\ ret = Raise("unset", "")
    /\ frame = NoFrame
    /\ trials = <<>>

\* calculator._multi_dimensional_normalization(args.metrics)
Normalize(c) ==
    /\ op' = "_multi_dimensional_normalization"
    /\ who' = c
    /\ ret' = Ok(multi_dimensional_normalization(args.metrics))
    /\ UNCHANGED <<calcs, rec, seen, args, frame, trials>>

NextNorm == \E c \in Calculators : Normalize(c)

SpecNorm == InitNorm /\ [][NextNorm]_vars

\* The entropy weights on their own, on the same raw metrics.
\* calculator._calculate_entropy_weights(args.metrics)
EntropyWeights(c) ==
    /\ op' = "_calculate_entropy_weights"
    /\ who' = c
    /\ ret' = Ok(calculate_entropy_weights(calcs[c], args.metrics))
    /\ UNCHANGED <<calcs, rec, seen, args, frame, trials>>

NextEntropy == \E c \in Calculators : EntropyWeights(c)

SpecEntropy == InitNorm /\ [][NextEntropy]_vars

\* ------------------------------------------------------------------------
\* Properties
\* ------------------------------------------------------------------------

\* The calculate_aem runs the last call made on rec: its own or its base
\* run (index 0), and the runs of the modified calculators (1..Len(trials)).
RunIds == 0..Len(trials)
Run(i) == IF i = 0 THEN frame ELSE trials[i].run
Returned(run) == run.ret.exc = "none"

InUnit(x) == 0 <= x /\ x <= SCALE

\* C1: whenever calculate_aem returns under the calculator's own
\* configuration, the score and each of the six components lie in [0, 1].
C1_ScoreAndComponentsInUnitInterval ==
    Returned(frame) =>
        /\ InUnit(frame.ret.v.score)
        /\ Keys(frame.ret.v.components) = MetricNames
        /\ \A i \in 1..Len(frame.ret.v.components) :
               InUnit(frame.ret.v.components[i][2])

\* A direct calculate_aem call returned a score strictly inside (0, 1)
\* with components that are not all the neutral value.
C1_Witness ==
    /\ op = "calculate_aem"
    /\ Returned(frame)
    /\ 0 < ret.v.score /\ ret.v.score < SCALE
    /\ \E i \in 1..Len(ret.v.components) : ret.v.components[i][2] # Milli(500)

\* One unit of rounding for each of the divisions by total_weight.
SumTolerance == Len(MetricNames)

\* C2: in every calculate_aem run that returns, under the base weights or
\* under a perturbed configuration, the six final weights sum to 1 (to
\* within the rounding of the six divisions).
C2_FinalWeightsSumToOne ==
    \A i \in RunIds :
        Returned(Run(i)) =>
            /\ Keys(Run(i).final_weights) = MetricNames
            /\ Abs(SeqSum(Values(Run(i).final_weights)) - SCALE) <= SumTolerance

\* A run under a perturbed configuration, whose base weights do not sum
\* to 1, returned.
C2_Witness ==
    \E i \in 1..Len(trials) :
        /\ Returned(trials[i].run)
        /\ SeqSum(Values(trials[i].weights)) # SCALE

RECURSIVE SumByName(_, _, _)
\* The sum over the names ks of weights[k] * scores[k].
SumByName(ks, weights, scores) ==
    IF ks = <<>> THEN 0
    ELSE FMul(Get(weights, Head(ks)), Get(scores, Head(ks)))
         + SumByName(Tail(ks), weights, scores)

\* C3: the score of every run that returns is the sum over the six metric
\* names of the final weight times the normalized metric of that name,
\* and the call returns the score with the six-key normalized map.
C3_ScoreIsWeightedSumByName ==
    \A i \in RunIds :
        Returned(Run(i)) =>
            /\ Run(i).ret.v.score
                 = SumByName(MetricNames, Run(i).final_weights,
                             Run(i).normalized_metrics)
            /\ Run(i).ret.v.components = Run(i).normalized_metrics
            /\ Keys(Run(i).normalized_metrics) = MetricNames

\* A perturbed run returned with normalized metrics and final weights
\* that both differ from metric to metric.
C3_Witness ==
    \E i \in 1..Len(trials) :
        /\ Returned(trials[i].run)
        /\ \E j, k \in 1..Len(MetricNames) :
               /\ trials[i].run.normalized_metrics[j][2]
                    # trials[i].run.normalized_metrics[k][2]
               /\ trials[i].run.final_weights[j][2]
                    # trials[i].run.final_weights[k][2]

\* C4 (as stated): whenever one of the five required numeric fields is
\* absent from the record, calculate_aem raises a KeyError naming an
\* absent required field, whatever the other fields hold.
C4_MissingFieldAlwaysRaises ==
    (op = "calculate_aem" /\ \E f \in NumericFields : ~Has(rec, f)) =>
        /\ ret.exc = "KeyError"
        /\ ret.arg \in NumericFields
        /\ ~Has(rec, ret.arg)

\* The other record's entry as calculate_aem gives it for that record alone.
EntryAlone(self, data) ==
    [ score      |-> calculate_aem(self, data).ret.v.score,
      components |-> calculate_aem(self, data).ret.v.components ]

\* C5 (as stated): cross_validate_schools on two distinct records returns
\* two entries, one per record under its organization_name, each holding
\* the score and components calculate_aem returns for that record alone.
C5_TwoEntriesOnePerRecord ==
    (op = "cross_validate_schools" /\ ~Raised(ret)
        /\ args.other # rec) =>
        /\ Len(ret.v) = 2
        /\ ret.v[1] = <<rec.organization_name,
                        [ score      |-> frame.ret.v.score,
                          components |-> frame.ret.v.components ]>>
        /\ ret.v[2] = <<args.other.organization_name,
                        EntryAlone(NewCalculator, args.other)>>

\* C6: sensitivity_analysis returns one value per metric, each >= 0, and
\* with variation = 0 every value is 0.
C6_SensitivityNonNegativeAndZeroAtZero ==
    (op = "sensitivity_analysis" /\ ~Raised(ret)) =>
        /\ Keys(ret.v) = MetricNames
        /\ \A i \in 1..Len(ret.v) : ret.v[i][2] >= 0
        /\ args.variation = 0 => \A i \in 1..Len(ret.v) : ret.v[i][2] = 0

\* sensitivity_analysis returned with variation 0 after six perturbed
\* runs that all returned.
C6_Witness ==
    /\ op = "sensitivity_analysis"
    /\ ~Raised(ret)
    /\ args.variation = 0
    /\ Len(trials) = Len(MetricNames)
    /\ \A i \in 1..Len(trials) : Returned(trials[i].run)

\* C7: every direct calculate_aem call on the record has the outcome of
\* the first one, whichever calculator makes it, whether or not that
\* calculator was constructed anew, and whatever was called in between.
C7_CalculateAemIsDeterministic ==
    (op = "calculate_aem" /\ seen.by # 0) => ret = seen.ret

\* A calculator other than the first caller returned a score for the
\* record.
C7_Witness ==
    /\ op = "calculate_aem"
    /\ seen.by # 0
    /\ who # seen.by
    /\ ~Raised(ret)

\* C8: when the six raw metrics given to the normalizer are all equal,
\* each of the six normalized metrics is 0.5.
C8_EqualMetricsNormalizeToHalf ==
    (op = "_multi_dimensional_normalization"
        /\ \A i \in 1..Len(args.metrics) : args.metrics[i][2] = args.metrics[1][2]) =>
        /\ Keys(ret.v) = MetricNames
        /\ \A i \in 1..Len(ret.v) : ret.v[i][2] = Milli(500)

\* The normalizer was applied to six equal metrics other than 0.5.
C8_Witness ==
    /\ op = "_multi_dimensional_normalization"
    /\ \A i \in 1..Len(args.metrics) : args.metrics[i][2] = SCALE

\* C9: on a record with total_revenue = 0 and total_expenses = 0 no run
\* stops in the net_surplus_margin or the revenue_sustainability
\* extractor, and once the raw metrics are built both are 0.
C9_ZeroRevenueZeroExpensesGiveZero ==
    (Has(rec, "total_revenue") /\ Has(rec, "total_expenses")
        /\ rec.total_revenue = 0 /\ rec.total_expenses = 0) =>
        /\ frame.at \notin {"net_surplus_margin", "revenue_sustainability"}
        /\ frame.raw_metrics # <<>> =>
               /\ Get(frame.raw_metrics, "net_surplus_margin") = 0
               /\ Get(frame.raw_metrics, "revenue_sustainability") = 0

\* analyze_normalization returned the raw metrics of a record with zero
\* revenue and zero expenses.
C9_Witness ==
    /\ op = "analyze_normalization"
    /\ ~Raised(ret)
    /\ Has(rec, "total_revenue") /\ Has(rec, "total_expenses")
    /\ rec.total_revenue = 0 /\ rec.total_expenses = 0
    /\ frame.raw_metrics # <<>>

\* C10 (as stated): on every record whose five required numeric fields
\* are present and non-negative, calculate_aem returns a score and
\* components and does not raise.
C10_DegenerateInputNeverRaises ==
    (op = "calculate_aem"
        /\ \A f \in NumericFields : Has(rec, f) /\ rec[f] >= 0) =>
        ~Raised(ret)

RECURSIVE NamedPolicySum(_, _)
\* The sum over the flags of policies that are true of the weight that
\* policy_weights gives the flag's own name.
NamedPolicySum(policies, policy_weights) ==
    IF policies = <<>> THEN 0
    ELSE (IF Head(policies)[2] THEN Get(policy_weights, Head(policies)[1]) ELSE 0)
         + NamedPolicySum(Tail(policies), policy_weights)

\* C11 (as stated): for every non-empty policies mapping, fully or
\* partially populated and in any order, the transparency metric is the
\* sigmoid of the sum of the weights of the named flags that are true
\* (0.3, 0.3, 0.2, 0.2 by name).
C11_PolicyFlagsWeighByName ==
    (Has(rec, "policies") /\ rec.policies # <<>> /\ frame.raw_metrics # <<>>) =>
        Get(frame.raw_metrics, "transparency")
          = sigmoid_normalization(
                NamedPolicySum(rec.policies, DefaultPolicyWeights)).v

\* C12: in sensitivity_analysis the weights given to the calculator of
\* the i-th perturbation are the caller's base weights (those of its
\* construction) with the weight of the i-th metric multiplied by
\* 1 + variation and every other weight as it was: earlier perturbations
\* do not show in later ones.
C12_PerturbationsDoNotAccumulate ==
    op = "sensitivity_analysis" =>
        \A i \in 1..Len(trials) :
            /\ trials[i].metric = MetricNames[i]
            /\ Keys(trials[i].weights) = MetricNames
            /\ \A k \in 1..Len(MetricNames) :
                   trials[i].weights[k][2]
                     = IF k = i
                       THEN FMul(DefaultBaseWeights[k][2], SCALE + args.variation)
                       ELSE DefaultBaseWeights[k][2]

\* sensitivity_analysis went through all six perturbations with a
\* variation other than 0.
C12_Witness ==
    /\ op = "sensitivity_analysis"
    /\ args.variation # 0
    /\ Len(trials) = Len(MetricNames)
    /\ trials[Len(trials)].weights # DefaultBaseWeights

\* C13: every call leaves each calculator's configuration (base_weights,
\* policy_weights, the sigmoid constants) as its constructor set it, and
\* leaves the record passed in as it was.
C13_ConfigurationAndRecordUnchanged ==
    [][/\ \A c \in Calculators : calcs'[c] = NewCalculator
       /\ rec' = rec]_vars

\* sensitivity_analysis returned after six perturbations with a variation
\* other than 0, and the calculators hold the weights of construction.
C13_Witness ==
    /\ op = "sensitivity_analysis"
    /\ ~Raised(ret)
    /\ args.variation # 0
    /\ \A c \in Calculators : calcs[c].base_weights = DefaultBaseWeights

\* The entropies _calculate_entropy_weights computes for metrics.
EntropiesOf(metrics) ==
    Entropies(Probabilities(AdjustedMetrics(metrics),
                            SeqSum(Values(AdjustedMetrics(metrics)))))

\* The inverse entropies it derives from them.
InverseOf(entropies) == InverseEntropies(entropies, SeqMax(Values(entropies)))

\* weights is antitone in entropies, and smallest where the entropy is
\* max_entropy.
Antitone(entropies, max_entropy, weights) ==
    \A i, j \in 1..Len(weights) :
        /\ entropies[i][2] < entropies[j][2] => weights[i][2] >= weights[j][2]
        /\ entropies[i][2] = max_entropy => weights[i][2] <= weights[j][2]

\* Each weight is the quotient of inverse + epsilon, a positive number, by
\* the strictly larger denominator.
ProperQuotients(inverse, denominator, weights) ==
    \A i \in 1..Len(weights) :
        /\ 0 < inverse[i][2] + epsilon
        /\ inverse[i][2] + epsilon < denominator
        /\ weights[i][2] = FDiv(inverse[i][2] + epsilon, denominator)
        /\ 0 <= weights[i][2] /\ weights[i][2] < SCALE

\* Both, for the entropies and the inverse entropies of one call.
AntitoneProperQuotients(entropies, inverse, weights) ==
    /\ Antitone(entropies, SeqMax(Values(entropies)), weights)
    /\ ProperQuotients(inverse,
                       SeqSum(Values(inverse)) + Len(inverse) * epsilon, weights)

\* C14: the entropy weights are antitone in the metrics' entropies (a
\* metric of lower entropy has a weight at least as large, and a metric
\* of maximal entropy has the smallest weight), and every weight is the
\* quotient of a positive number by a strictly larger one, so it lies
\* strictly between 0 and 1 (on the fixed-point grid: in [0, 1)).
C14_EntropyWeightsAntitoneInUnitInterval ==
    op = "_calculate_entropy_weights" =>
        /\ Keys(ret.v) = MetricNames
        /\ AntitoneProperQuotients(EntropiesOf(args.metrics),
                                   InverseOf(EntropiesOf(args.metrics)), ret.v)

\* The entropy weights were computed for metrics of different entropies,
\* and a metric of lower entropy got a strictly larger weight.
C14_Witness ==
    /\ op = "_calculate_entropy_weights"
    /\ \E i, j \in 1..Len(ret.v) :
           /\ EntropiesOf(args.metrics)[i][2] < EntropiesOf(args.metrics)[j][2]
           /\ ret.v[i][2] > ret.v[j][2]

=============================================================================
